---- MODULE Spec2Model ----
(***************************************************************************)
(* Topology engine of py-traffic-sim: the tile grid (road/grid.py,         *)
(* TileGrid), the travel graph (road/grid.py, TravelGraph and              *)
(* TravelIntersection) and the composition root (road/network.py,          *)
(* RoadNetwork).                                                           *)
(***************************************************************************)
EXTENDS Integers, Sequences, FiniteSets, TLC

\* Grid extent handed to RoadNetwork(w, h): the grid has H rows and W columns.
W == 3
H == 3

\* grid, intersections, G: the fields of TileGrid and TravelGraph.
\* ret, exc: what the last add_road / tile_type call returned or raised.
\* args, result: the arguments and the result of the pending query
\* (shortest_path, or the shape classification of a neighbour mask).
VARIABLES grid, intersections, G, ret, exc, args, result

vars == <<grid, intersections, G, ret, exc, args, result>>

(***************************************************************************)
(* constants.py: Direction, RoadNodeType, TileType                         *)
(***************************************************************************)
Direction == {"UP", "RIGHT", "DOWN", "LEFT"}

\* Insertion order of the dict built by get_neighbors; every loop over
\* nbrs.items() visits the directions in this order.
DirOrder == <<"UP", "RIGHT", "DOWN", "LEFT">>

RoadNodeType == {"ENTER", "EXIT"}

TileType ==
    {"EMPTY", "ALONE", "UP", "RIGHT", "DOWN", "LEFT",
     "UP_RIGHT", "RIGHT_DOWN", "DOWN_LEFT", "UP_LEFT", "UP_DOWN", "RIGHT_LEFT",
     "UP_RIGHT_DOWN", "RIGHT_DOWN_LEFT", "UP_DOWN_LEFT", "UP_RIGHT_LEFT",
     "UP_RIGHT_DOWN_LEFT"}

\* Direction.opposite()
opposite(dir) ==
    CASE dir = "UP" -> "DOWN"
      [] dir = "DOWN" -> "UP"
      [] dir = "RIGHT" -> "LEFT"
      [] dir = "LEFT" -> "RIGHT"

\* TileType.segment_directions(): the active directions of a shape.
segment_directions(ttype) ==
    CASE ttype = "EMPTY" -> {}
      [] ttype = "ALONE" -> {}
      [] ttype = "UP" -> {"UP"}
      [] ttype = "RIGHT" -> {"RIGHT"}
      [] ttype = "DOWN" -> {"DOWN"}
      [] ttype = "LEFT" -> {"LEFT"}
      [] ttype = "UP_RIGHT" -> {"UP", "RIGHT"}
      [] ttype = "RIGHT_DOWN" -> {"RIGHT", "DOWN"}
      [] ttype = "DOWN_LEFT" -> {"DOWN", "LEFT"}
      [] ttype = "UP_LEFT" -> {"UP", "LEFT"}
      [] ttype = "UP_DOWN" -> {"UP", "DOWN"}
      [] ttype = "RIGHT_LEFT" -> {"RIGHT", "LEFT"}
      [] ttype = "UP_RIGHT_DOWN" -> {"UP", "RIGHT", "DOWN"}
      [] ttype = "RIGHT_DOWN_LEFT" -> {"RIGHT", "DOWN", "LEFT"}
      [] ttype = "UP_DOWN_LEFT" -> {"UP", "DOWN", "LEFT"}
      [] ttype = "UP_RIGHT_LEFT" -> {"UP", "RIGHT", "LEFT"}
      [] ttype = "UP_RIGHT_DOWN_LEFT" -> {"UP", "RIGHT", "DOWN", "LEFT"}

(***************************************************************************)
(* Python list indexing: self.grid[r][c]                                   *)
(***************************************************************************)
\* A list of length n accepts the indices -n .. n-1; anything else raises
\* IndexError.
ValidIndex(i, n) == -n <= i /\ i < n

\* A negative index counts from the end of the list.
ListIndex(i, n) == IF i < 0 THEN i + n ELSE i

IndexOk(r, c) == ValidIndex(r, H) /\ ValidIndex(c, W)

\* self.grid[r][c]
GridGet(g, r, c) == g[ListIndex(r, H)][ListIndex(c, W)]

\* self.grid[r][c] = v
GridSet(g, r, c, v) ==
    [g EXCEPT ![ListIndex(r, H)] = [@ EXCEPT ![ListIndex(c, W)] = v]]

(***************************************************************************)
(* TileGrid                                                                *)
(***************************************************************************)
tile_type(g, r, c) == GridGet(g, r, c)

get_neighbors(g, r, c) ==
    LET up == r - 1 >= 0 /\ tile_type(g, r - 1, c) # "EMPTY"
        right == c + 1 < W /\ tile_type(g, r, c + 1) # "EMPTY"
        down == r + 1 < H /\ tile_type(g, r + 1, c) # "EMPTY"
        left == c - 1 >= 0 /\ tile_type(g, r, c - 1) # "EMPTY"
        keys == {d \in Direction :
                    \/ d = "UP" /\ up
                    \/ d = "RIGHT" /\ right
                    \/ d = "DOWN" /\ down
                    \/ d = "LEFT" /\ left}
    IN  [d \in keys |->
            CASE d = "UP" -> <<<<r - 1, c>>, tile_type(g, r - 1, c)>>
              [] d = "RIGHT" -> <<<<r, c + 1>>, tile_type(g, r, c + 1)>>
              [] d = "DOWN" -> <<<<r + 1, c>>, tile_type(g, r + 1, c)>>
              [] d = "LEFT" -> <<<<r, c - 1>>, tile_type(g, r, c - 1)>>]

\* Faulty variant: the two straight-through branches of count == 2 are
\* missing, so those masks fall through to None.
classify_without_straights(count, up, right, down, left) ==
    IF count = 0 THEN "ALONE"
    ELSE IF count = 1 THEN
        IF up THEN "UP"
        ELSE IF right THEN "RIGHT"
        ELSE IF down THEN "DOWN"
        ELSE IF left THEN "LEFT"
        ELSE "None"
    ELSE IF count = 2 THEN
        IF up /\ right THEN "UP_RIGHT"
        ELSE IF right /\ down THEN "RIGHT_DOWN"
        ELSE IF down /\ left THEN "DOWN_LEFT"
        ELSE IF up /\ left THEN "UP_LEFT"
        ELSE "None"
    ELSE IF count = 3 THEN
        IF up /\ right /\ down THEN "UP_RIGHT_DOWN"
        ELSE IF right /\ down /\ left THEN "RIGHT_DOWN_LEFT"
        ELSE IF up /\ down /\ left THEN "UP_DOWN_LEFT"
        ELSE IF up /\ right /\ left THEN "UP_RIGHT_LEFT"
        ELSE "None"
    ELSE IF count = 4 THEN "UP_RIGHT_DOWN_LEFT"
    ELSE "None"

\* The if/elif chain of evaluate_tile_type over the neighbour dict; a chain
\* that falls through returns Python's None.
classify(count, up, right, down, left) ==
    IF count = 0 THEN "ALONE"
    ELSE IF count = 1 THEN
        IF up THEN "UP"
        ELSE IF right THEN "RIGHT"
        ELSE IF down THEN "DOWN"
        ELSE IF left THEN "LEFT"
        ELSE "None"
    ELSE IF count = 2 THEN
        IF up /\ right THEN "UP_RIGHT"
        ELSE IF right /\ down THEN "RIGHT_DOWN"
        ELSE IF down /\ left THEN "DOWN_LEFT"
        ELSE IF up /\ left THEN "UP_LEFT"
        ELSE IF up /\ down THEN "UP_DOWN"
        ELSE IF right /\ left THEN "RIGHT_LEFT"
        ELSE "None"
    ELSE IF count = 3 THEN
        IF up /\ right /\ down THEN "UP_RIGHT_DOWN"
        ELSE IF right /\ down /\ left THEN "RIGHT_DOWN_LEFT"
        ELSE IF up /\ down /\ left THEN "UP_DOWN_LEFT"
        ELSE IF up /\ right /\ left THEN "UP_RIGHT_LEFT"
        ELSE "None"
    ELSE IF count = 4 THEN "UP_RIGHT_DOWN_LEFT"
    ELSE "None"

\* Lines 68-108: count = len(nbrs.keys()), up = nbrs.get(Direction.UP), ...
\* (a present neighbour entry is a non-empty tuple, hence truthy).
classify_neighbors(keys) ==
    classify(Cardinality(keys), "UP" \in keys, "RIGHT" \in keys,
             "DOWN" \in keys, "LEFT" \in keys)

evaluate_tile_type(g, r, c, modified) ==
    IF ~modified /\ GridGet(g, r, c) = "EMPTY" THEN "EMPTY"
    ELSE classify_neighbors(DOMAIN get_neighbors(g, r, c))

\* Faulty variant: the cell is classified as if it had just been modified, so
\* an EMPTY cell is given a shape.
reevaluate_as_modified(g, r, c) ==
    GridSet(g, r, c, evaluate_tile_type(g, r, c, TRUE))

\* self.grid[r][c] = self.evaluate_tile_type(r, c)
reevaluate(g, r, c) == GridSet(g, r, c, evaluate_tile_type(g, r, c, FALSE))

\* Lines 46-47, 48-49 and 50-51 of add_tile.
reevaluate_up(g, r, c) == IF r - 1 >= 0 THEN reevaluate(g, r - 1, c) ELSE g

reevaluate_right(g, r, c) == IF c + 1 < W THEN reevaluate(g, r, c + 1) ELSE g

reevaluate_down(g, r, c) == IF r + 1 < H THEN reevaluate(g, r + 1, c) ELSE g

\* Faulty variant: the left neighbour is guarded by c-1 > 0, so the cell in
\* column 0 is never re-evaluated.
reevaluate_left_off_by_one(g, r, c) ==
    IF c - 1 > 0 THEN reevaluate(g, r, c - 1) ELSE g

\* Lines 52-53 of add_tile.
reevaluate_left(g, r, c) == IF c - 1 >= 0 THEN reevaluate(g, r, c - 1) ELSE g

\* Faulty variant: the adjacent cells keep the shape they had, so a shape
\* reflects only the neighbours present when its tile was placed.
reevaluate_none(g, r, c) == g

\* Lines 45-53 of add_tile: re-evaluate the four adjacent cells, in order.
reevaluate_adjacent(g, r, c) ==
    reevaluate_left(
        reevaluate_down(reevaluate_right(reevaluate_up(g, r, c), r, c), r, c),
        r, c)

\* Faulty variant: the neighbour requirement is applied whether or not the
\* placement is restricted.
add_tile_always_restricted(g, r, c, restrict_to_neighbors) ==
    IF ~IndexOk(r, c) THEN [grid |-> g, ret |-> "none", exc |-> "IndexError"]
    ELSE IF GridGet(g, r, c) # "EMPTY"
        THEN [grid |-> g, ret |-> "False", exc |-> "none"]
    ELSE IF DOMAIN get_neighbors(g, r, c) = {}
        THEN [grid |-> g, ret |-> "False", exc |-> "none"]
    ELSE [grid |-> reevaluate_adjacent(
                       GridSet(g, r, c, evaluate_tile_type(g, r, c, TRUE)), r, c),
          ret |-> "True", exc |-> "none"]

\* Faulty variant: the neighbour requirement is never applied.
add_tile_never_restricted(g, r, c, restrict_to_neighbors) ==
    IF ~IndexOk(r, c) THEN [grid |-> g, ret |-> "none", exc |-> "IndexError"]
    ELSE IF GridGet(g, r, c) # "EMPTY"
        THEN [grid |-> g, ret |-> "False", exc |-> "none"]
    ELSE [grid |-> reevaluate_adjacent(
                       GridSet(g, r, c, evaluate_tile_type(g, r, c, TRUE)), r, c),
          ret |-> "True", exc |-> "none"]

\* TileGrid.add_tile: the grid after the call, what it returns, and the
\* exception it raises (self.grid[r][c] on line 38 is the first access).
add_tile(g, r, c, restrict_to_neighbors) ==
    IF ~IndexOk(r, c) THEN [grid |-> g, ret |-> "none", exc |-> "IndexError"]
    ELSE IF GridGet(g, r, c) # "EMPTY"
        THEN [grid |-> g, ret |-> "False", exc |-> "none"]
    ELSE IF restrict_to_neighbors /\ DOMAIN get_neighbors(g, r, c) = {}
        THEN [grid |-> g, ret |-> "False", exc |-> "none"]
    ELSE [grid |-> reevaluate_adjacent(
                       GridSet(g, r, c, evaluate_tile_type(g, r, c, TRUE)), r, c),
          ret |-> "True", exc |-> "none"]

(***************************************************************************)
(* Grid index <-> world coordinates                                        *)
(***************************************************************************)
\* Faulty variant: the centre offset is a whole tile instead of half a tile.
grid_index_to_world_coords_whole_tile(r, c, center, tw, th) ==
    IF center THEN <<c * tw + tw, r * th + th>>
    ELSE <<c * tw, r * th>>

\* grid_index_to_world_coords(r, c, center); tw and th are the module's
\* TILE_WIDTH and TILE_HEIGHT, and // is floor division.
grid_index_to_world_coords(r, c, center, tw, th) ==
    IF center THEN <<c * tw + (tw \div 2), r * th + (th \div 2)>>
    ELSE <<c * tw, r * th>>

\* world_coords_to_grid_index(x, y)
world_coords_to_grid_index(x, y, tw, th) == <<y \div th, x \div tw>>

(***************************************************************************)
(* RoadSegmentNode and TravelIntersection                                  *)
(***************************************************************************)
\* The frozen dataclass: two nodes with equal fields are the same vertex.
RoadSegmentNode(tile_index, dir, node_type) ==
    [tile_index |-> tile_index, dir |-> dir, node_type |-> node_type]

\* Faulty variant: the EXIT entry is built with RoadNodeType.ENTER.
add_segment_nodes_same_type(insct, dir) ==
    [insct EXCEPT !.nodes =
        (dir :> [ENTER |-> RoadSegmentNode(<<insct.r, insct.c>>, dir, "ENTER"),
                 EXIT |-> RoadSegmentNode(<<insct.r, insct.c>>, dir, "ENTER")])
        @@ @]

\* TravelIntersection.add_segment_nodes: self.nodes[dir] = {ENTER: .., EXIT: ..}
add_segment_nodes(insct, dir) ==
    [insct EXCEPT !.nodes =
        (dir :> [ENTER |-> RoadSegmentNode(<<insct.r, insct.c>>, dir, "ENTER"),
                 EXIT |-> RoadSegmentNode(<<insct.r, insct.c>>, dir, "EXIT")])
        @@ @]

\* One pass of the loop of __init__ over tile_type.segment_directions().
init_segment(insct, dirs, dir) ==
    IF dir \in dirs THEN add_segment_nodes(insct, dir) ELSE insct

\* TravelIntersection.__init__
TravelIntersection(r, c, ttype) ==
    init_segment(
        init_segment(
            init_segment(
                init_segment([r |-> r, c |-> c, nodes |-> <<>>],
                             segment_directions(ttype), DirOrder[1]),
                segment_directions(ttype), DirOrder[2]),
            segment_directions(ttype), DirOrder[3]),
        segment_directions(ttype), DirOrder[4])

segments(insct) == DOMAIN insct.nodes

enter_nodes(insct) == {insct.nodes[dir].ENTER : dir \in DOMAIN insct.nodes}

exit_nodes(insct) == {insct.nodes[dir].EXIT : dir \in DOMAIN insct.nodes}

\* (ENTER, EXIT) of a segment
get_nodes_for_segment(insct, dir) ==
    <<insct.nodes[dir].ENTER, insct.nodes[dir].EXIT>>

(***************************************************************************)
(* nx.DiGraph: a vertex set and a set of directed edges                    *)
(***************************************************************************)
EmptyGraph == [nodes |-> {}, edges |-> {}]

\* G.add_edge(u, v): both endpoints become vertices; an existing edge stays.
add_edge(g, u, v) ==
    [nodes |-> g.nodes \cup {u, v}, edges |-> g.edges \cup {<<u, v>>}]

(***************************************************************************)
(* TravelGraph                                                             *)
(***************************************************************************)
\* Faulty variant: a single segment is not given its U-turn.
intraconnect_pairs_without_u_turn(insct) ==
    {p \in enter_nodes(insct) \X exit_nodes(insct) : p[2].dir # p[1].dir}

\* The ENTER -> EXIT pairs _intraconnect_nodes connects.
intraconnect_pairs(insct) ==
    IF Cardinality(segments(insct)) = 1
    THEN {get_nodes_for_segment(insct, dir) : dir \in segments(insct)}
    ELSE {p \in enter_nodes(insct) \X exit_nodes(insct) : p[2].dir # p[1].dir}

_intraconnect_nodes(g, insct) ==
    LET pairs == intraconnect_pairs(insct)
    IN  [nodes |-> g.nodes \cup {p[1] : p \in pairs} \cup {p[2] : p \in pairs},
         edges |-> g.edges \cup pairs]

\* Faulty variant: the dead-end self-loops are not cleared first.
_update_keeping_self_edges(g, insct) == _intraconnect_nodes(g, insct)

\* Faulty variant: every edge touching a node of the intersection is cleared,
\* not only the self-loops.
_update_clearing_all_edges(g, insct) ==
    LET mine == enter_nodes(insct) \cup exit_nodes(insct)
        cleared == [g EXCEPT !.edges =
                       {e \in @ : e[1] \notin mine /\ e[2] \notin mine}]
    IN  _intraconnect_nodes(cleared, insct)

\* Faulty variant: the self-loops are cleared, but the nodes are not
\* intraconnected again.
_update_without_reconnect(g, insct) ==
    [g EXCEPT !.edges =
        @ \ {get_nodes_for_segment(insct, dir) : dir \in segments(insct)}]

\* The loop removes every ENTER(d) -> EXIT(d) edge that exists (remove_edge
\* on a missing edge raises NetworkXError, which is swallowed); vertices stay.
_update_intersection_intraconnected_edges(g, insct) ==
    LET self_edges == {get_nodes_for_segment(insct, dir) : dir \in segments(insct)}
        cleared == [g EXCEPT !.edges = @ \ self_edges]
    IN  _intraconnect_nodes(cleared, insct)

\* Faulty variant: the neighbour gets its new segment, but its intra-edges are
\* not recomputed.
update_neighbor_segment_only(st, nbrs, dir) ==
    IF st.exc # "none" \/ dir \notin DOMAIN nbrs THEN st
    ELSE LET key == nbrs[dir][1]
         IN  IF key \notin DOMAIN st.intersections
             THEN [st EXCEPT !.exc = "KeyError"]
             ELSE LET n_insct == add_segment_nodes(st.intersections[key],
                                                   opposite(dir))
                  IN  [G |-> st.G,
                       intersections |-> [st.intersections EXCEPT ![key] = n_insct],
                       exc |-> "none"]

\* Faulty variant: the neighbour's intersection is replaced by a fresh one
\* that holds the new segment only.
update_neighbor_replacing(st, nbrs, dir) ==
    IF st.exc # "none" \/ dir \notin DOMAIN nbrs THEN st
    ELSE LET key == nbrs[dir][1]
         IN  IF key \notin DOMAIN st.intersections
             THEN [st EXCEPT !.exc = "KeyError"]
             ELSE LET n_insct == add_segment_nodes(
                                     [r |-> key[1], c |-> key[2], nodes |-> <<>>],
                                     opposite(dir))
                  IN  [G |-> _update_intersection_intraconnected_edges(st.G, n_insct),
                       intersections |-> [st.intersections EXCEPT ![key] = n_insct],
                       exc |-> "none"]

\* One pass of the first loop of register_tile_intersection (lines 278-283)
\* for direction dir; st carries the graph, the intersections and the
\* exception raised so far.
update_neighbor(st, nbrs, dir) ==
    IF st.exc # "none" \/ dir \notin DOMAIN nbrs THEN st
    ELSE LET key == nbrs[dir][1]
         IN  IF key \notin DOMAIN st.intersections
             THEN [st EXCEPT !.exc = "KeyError"]
             ELSE LET n_insct == add_segment_nodes(st.intersections[key],
                                                   opposite(dir))
                  IN  [G |-> _update_intersection_intraconnected_edges(st.G, n_insct),
                       intersections |-> [st.intersections EXCEPT ![key] = n_insct],
                       exc |-> "none"]

\* Faulty variant: only the outgoing boundary edge is added.
connect_neighbor_one_way(st, insct, nbrs, dir) ==
    IF st.exc # "none" \/ dir \notin DOMAIN nbrs THEN st
    ELSE LET key == nbrs[dir][1]
         IN  IF key \notin DOMAIN st.intersections
             THEN [st EXCEPT !.exc = "KeyError"]
             ELSE LET n_insct == st.intersections[key]
                      mine == get_nodes_for_segment(insct, dir)
                      theirs == get_nodes_for_segment(n_insct, opposite(dir))
                  IN  [st EXCEPT !.G = add_edge(@, mine[2], theirs[1])]

\* Faulty variant: the boundary edges point the wrong way, from ENTER to EXIT.
connect_neighbor_reversed(st, insct, nbrs, dir) ==
    IF st.exc # "none" \/ dir \notin DOMAIN nbrs THEN st
    ELSE LET key == nbrs[dir][1]
         IN  IF key \notin DOMAIN st.intersections
             THEN [st EXCEPT !.exc = "KeyError"]
             ELSE LET n_insct == st.intersections[key]
                      mine == get_nodes_for_segment(insct, dir)
                      theirs == get_nodes_for_segment(n_insct, opposite(dir))
                  IN  [st EXCEPT !.G = add_edge(add_edge(@, theirs[1], mine[2]),
                                                mine[1], theirs[2])]

\* The segment lookups of lines 288-289: self.nodes[dir] raises KeyError for
\* a direction that is no segment of the intersection.
has_segments(insct, n_insct, dir) ==
    dir \in segments(insct) /\ opposite(dir) \in segments(n_insct)

\* One pass of the second loop (lines 286-291) for direction dir.
connect_neighbor(st, insct, nbrs, dir) ==
    IF st.exc # "none" \/ dir \notin DOMAIN nbrs THEN st
    ELSE LET key == nbrs[dir][1]
         IN  IF key \notin DOMAIN st.intersections
             THEN [st EXCEPT !.exc = "KeyError"]
             ELSE IF ~has_segments(insct, st.intersections[key], dir)
             THEN [st EXCEPT !.exc = "KeyError"]
             ELSE LET n_insct == st.intersections[key]
                      mine == get_nodes_for_segment(insct, dir)
                      theirs == get_nodes_for_segment(n_insct, opposite(dir))
                  IN  [st EXCEPT !.G = add_edge(add_edge(@, mine[2], theirs[1]),
                                                theirs[2], mine[1])]

\* The first loop, over nbrs.items() in insertion order.
update_neighbors(st, nbrs) ==
    update_neighbor(
        update_neighbor(
            update_neighbor(update_neighbor(st, nbrs, DirOrder[1]),
                            nbrs, DirOrder[2]),
            nbrs, DirOrder[3]),
        nbrs, DirOrder[4])

\* The second loop, over nbrs.items() in insertion order.
connect_neighbors(st, insct, nbrs) ==
    connect_neighbor(
        connect_neighbor(
            connect_neighbor(connect_neighbor(st, insct, nbrs, DirOrder[1]),
                             insct, nbrs, DirOrder[2]),
            insct, nbrs, DirOrder[3]),
        insct, nbrs, DirOrder[4])

\* Line 272: the graph with the new intersection intraconnected, before any
\* neighbour is touched.
register_start(g, ints, insct) ==
    [G |-> _intraconnect_nodes(g, insct), intersections |-> ints, exc |-> "none"]

\* Faulty variant: an intersection without segments (an ALONE tile) is not
\* stored.
store_unless_empty(st, r, c, insct) ==
    IF st.exc # "none" \/ segments(insct) = {} THEN st
    ELSE [st EXCEPT !.intersections = (<<r, c>> :> insct) @@ @]

\* Line 293: self.intersections[(r, c)] = insct, reached unless an exception
\* cut the method short.
store_intersection(st, r, c, insct) ==
    IF st.exc # "none" THEN st
    ELSE [st EXCEPT !.intersections = (<<r, c>> :> insct) @@ @]

\* Faulty variant: the boundary edges are added before the neighbours get
\* their new segments.
register_intersection_connecting_first(g, ints, r, c, insct, nbrs) ==
    store_intersection(
        update_neighbors(connect_neighbors(register_start(g, ints, insct),
                                           insct, nbrs),
                         nbrs),
        r, c, insct)

\* Lines 272-293 for the intersection built on line 271.
register_intersection(g, ints, r, c, insct, nbrs) ==
    store_intersection(
        connect_neighbors(update_neighbors(register_start(g, ints, insct), nbrs),
                          insct, nbrs),
        r, c, insct)

\* TravelGraph.register_tile_intersection: the graph and the intersections
\* it leaves, and the exception that cut it short (if any).
register_tile_intersection(g, ints, r, c, ttype, nbrs) ==
    register_intersection(g, ints, r, c, TravelIntersection(r, c, ttype), nbrs)

\* The vertices one edge away from a vertex of frontier.
successors(g, frontier) == {e[2] : e \in {x \in g.edges : x[1] \in frontier}}

\* Breadth-first search from the last layer of layers until target is met:
\* the layers of vertices at 0, 1, 2, ... hops from the source, or <<>> when
\* the search runs dry before reaching target.
RECURSIVE bfs_layers(_, _, _, _)
bfs_layers(g, target, seen, layers) ==
    IF target \in layers[Len(layers)] THEN layers
    ELSE IF successors(g, layers[Len(layers)]) \subseteq seen THEN <<>>
    ELSE bfs_layers(g, target,
                    seen \cup successors(g, layers[Len(layers)]),
                    Append(layers, successors(g, layers[Len(layers)]) \ seen))

\* The paths the predecessor links of the search can yield: suffixes are the
\* path ends found so far, each starting in layer i.
RECURSIVE paths_back(_, _, _, _)
paths_back(g, layers, i, suffixes) ==
    IF i = 1 THEN suffixes
    ELSE paths_back(g, layers, i - 1,
                    UNION {{<<u>> \o p : p \in {q \in suffixes : <<u, q[1]>> \in g.edges}} :
                             u \in layers[i - 1]})

\* The simple paths that extend walked to target.
RECURSIVE simple_paths(_, _, _)
simple_paths(g, walked, target) ==
    IF walked[Len(walked)] = target THEN {walked}
    ELSE UNION {simple_paths(g, Append(walked, v), target) :
                  v \in {w \in successors(g, {walked[Len(walked)]}) :
                            \A i \in 1..Len(walked) : walked[i] # w}}

\* Faulty variant: a depth-first walk, which returns some simple path to the
\* target, not necessarily one of the fewest hops.
found_paths_depth_first(g, source, target, layers) ==
    simple_paths(g, <<source>>, target)

\* The node sequences the search can return once target has been reached.
found_paths(g, source, target, layers) ==
    paths_back(g, layers, Len(layers), {<<target>>})

\* The outcome of the search: NetworkXNoPath when it ran dry.
search_outcome(g, source, target, layers) ==
    IF layers = <<>> THEN [exc |-> "NetworkXNoPath", paths |-> {<<>>}]
    ELSE [exc |-> "none", paths |-> found_paths(g, source, target, layers)]

\* TravelGraph.shortest_path: nx.shortest_path(G, source, target) raises
\* NodeNotFound when an endpoint is no vertex of G, NetworkXNoPath when target
\* cannot be reached, and else returns a path found by breadth-first search
\* (which one of several equally short paths depends on adjacency order).
shortest_path(g, source_node, target_node) ==
    IF source_node \notin g.nodes \/ target_node \notin g.nodes
    THEN [exc |-> "NodeNotFound", paths |-> {<<>>}]
    ELSE search_outcome(g, source_node, target_node,
                        bfs_layers(g, target_node, {source_node},
                                   <<{source_node}>>))

(***************************************************************************)
(* RoadNetwork                                                             *)
(***************************************************************************)
\* RoadNetwork.__init__: an all-EMPTY grid and an empty travel graph.
Init ==
    /\ grid = [r \in 0..(H - 1) |-> [c \in 0..(W - 1) |-> "EMPTY"]]
    /\ intersections = <<>>
    /\ G = EmptyGraph
    /\ ret = "none"
    /\ exc = "none"
    /\ args = <<>>
    /\ result = <<>>

\* Lines 30-33 of add_road, on the grid add_tile left.
register_added_tile(g, ints, gr, r, c) ==
    register_tile_intersection(g, ints, r, c, tile_type(gr, r, c),
                               get_neighbors(gr, r, c))

\* Line 34: add_road returns True once the registration has completed; an
\* exception raised by the registration propagates instead.
registered(reg, gr) ==
    [grid |-> gr, G |-> reg.G, intersections |-> reg.intersections,
     exc |-> reg.exc, ret |-> IF reg.exc = "none" THEN "True" ELSE "none"]

\* What add_road leaves, returns and raises, given the outcome of add_tile.
add_road_outcome(g, ints, added, r, c) ==
    IF added.exc = "none" /\ added.ret = "True"
    THEN registered(register_added_tile(g, ints, added.grid, r, c), added.grid)
    ELSE [grid |-> added.grid, G |-> g, intersections |-> ints,
          exc |-> added.exc, ret |-> added.ret]

\* RoadNetwork.add_road(r, c, restrict_to_neighbors)
add_road(r, c, restrict_to_neighbors) ==
    LET out == add_road_outcome(G, intersections,
                                add_tile(grid, r, c, restrict_to_neighbors), r, c)
    IN  /\ grid' = out.grid
        /\ G' = out.G
        /\ intersections' = out.intersections
        /\ exc' = out.exc
        /\ ret' = out.ret
        /\ UNCHANGED <<args, result>>

\* The indices of the grid's extent, [0,h) x [0,w).
Rows == 0..(H - 1)
Cols == 0..(W - 1)

\* Placement requests on cells of the grid.
AddRoadInBounds ==
    \E r \in Rows, c \in Cols, restrict_to_neighbors \in BOOLEAN :
        add_road(r, c, restrict_to_neighbors)

Next == AddRoadInBounds

Spec == Init /\ [][Next]_vars

(***************************************************************************)
(* Callers that also pass indices outside the grid's extent                *)
(***************************************************************************)
\* TileGrid.tile_type(r, c) called from outside: the value it returns, or the
\* IndexError of the list access.
tile_type_call(r, c) ==
    /\ ret' = IF IndexOk(r, c) THEN tile_type(grid, r, c) ELSE "none"
    /\ exc' = IF IndexOk(r, c) THEN "none" ELSE "IndexError"
    /\ UNCHANGED <<grid, intersections, G, args, result>>

\* Indices one step outside the extent on either side, and all those inside.
AnyRows == -1..H
AnyCols == -1..W

\* The callers passing arbitrary indices are followed until this many cells
\* hold a road.
MaxRoadsAnywhere == 3

RoadCount ==
    Cardinality({x \in (0..(H - 1)) \X (0..(W - 1)) : grid[x[1]][x[2]] # "EMPTY"})

AddRoadAnywhere ==
    /\ RoadCount < MaxRoadsAnywhere
    /\ \E r \in AnyRows, c \in AnyCols, restrict_to_neighbors \in BOOLEAN :
          add_road(r, c, restrict_to_neighbors)

TileTypeAnywhere == \E r \in AnyRows, c \in AnyCols : tile_type_call(r, c)

NextAnywhere == AddRoadAnywhere \/ TileTypeAnywhere

SpecAnywhere == Init /\ [][NextAnywhere]_vars

(***************************************************************************)
(* Placements and routing queries                                          *)
(***************************************************************************)
\* The nodes routing queries are issued for: the segments the first and the
\* last cell of the grid can have, and the segment of the first cell's
\* right-hand neighbour that faces it.
QuerySources ==
    {RoadSegmentNode(<<0, 0>>, d, t) : d \in {"RIGHT", "DOWN"}, t \in RoadNodeType}

QueryTargets ==
    QuerySources \cup
    {RoadSegmentNode(<<H - 1, W - 1>>, d, t) : d \in {"UP", "LEFT"}, t \in RoadNodeType}
    \cup {RoadSegmentNode(<<0, 1>>, "LEFT", t) : t \in RoadNodeType}

\* A caller asks for shortest_path(source, target) and holds the answer (a
\* path, or the exception in exc) until it takes it.
ShortestPathQuery ==
    /\ args = <<>>
    /\ \E source \in QuerySources, target \in QueryTargets :
          /\ args' = <<source, target>>
          /\ exc' = shortest_path(G, source, target).exc
          /\ result' \in shortest_path(G, source, target).paths
    /\ UNCHANGED <<grid, intersections, G, ret>>

\* The caller takes the answer; the next operation can start.
TakeResult ==
    /\ args # <<>>
    /\ args' = <<>>
    /\ result' = <<>>
    /\ UNCHANGED <<grid, intersections, G, ret, exc>>

\* Operations are serialised by the composition root: no placement while a
\* query is being answered.
AddRoadBetweenQueries == args = <<>> /\ AddRoadInBounds

NextRouting == AddRoadBetweenQueries \/ ShortestPathQuery \/ TakeResult

SpecRouting == Init /\ [][NextRouting]_vars

(***************************************************************************)
(* Intra-connection maintenance run again on a stored intersection         *)
(***************************************************************************)
\* _update_intersection_intraconnected_edges(insct) on the intersection
\* stored for coord, whose segments are left as they are.
UpdateIntersection(coord) ==
    /\ args = <<>>
    /\ coord \in DOMAIN intersections
    /\ G' = _update_intersection_intraconnected_edges(G, intersections[coord])
    /\ args' = <<"_update_intersection_intraconnected_edges", coord>>
    /\ UNCHANGED <<grid, intersections, ret, exc, result>>

\* _intraconnect_nodes(insct) on the intersection stored for coord.
IntraconnectIntersection(coord) ==
    /\ args = <<>>
    /\ coord \in DOMAIN intersections
    /\ G' = _intraconnect_nodes(G, intersections[coord])
    /\ args' = <<"_intraconnect_nodes", coord>>
    /\ UNCHANGED <<grid, intersections, ret, exc, result>>

UpdateAnyIntersection == \E coord \in Rows \X Cols : UpdateIntersection(coord)

IntraconnectAnyIntersection ==
    \E coord \in Rows \X Cols : IntraconnectIntersection(coord)

NextMaintenance ==
    \/ AddRoadBetweenQueries
    \/ UpdateAnyIntersection
    \/ IntraconnectAnyIntersection
    \/ TakeResult

SpecMaintenance == Init /\ [][NextMaintenance]_vars

(***************************************************************************)
(* The coordinate conversions on their own                                 *)
(***************************************************************************)
\* Largest tile width and height (in world units) the conversions are run with.
MaxTileSize == 4

\* A grid index, the center flag, and the tile width and height.
InitCoords ==
    /\ grid = [r \in 0..(H - 1) |-> [c \in 0..(W - 1) |-> "EMPTY"]]
    /\ intersections = <<>>
    /\ G = EmptyGraph
    /\ ret = "none"
    /\ exc = "none"
    /\ args \in Rows \X Cols \X BOOLEAN \X (1..MaxTileSize) \X (1..MaxTileSize)
    /\ result = <<>>

\* (x, y) = grid_index_to_world_coords(r, c, center)
ToWorld ==
    /\ result = <<>>
    /\ result' = <<grid_index_to_world_coords(args[1], args[2], args[3],
                                              args[4], args[5])>>
    /\ UNCHANGED <<grid, intersections, G, ret, exc, args>>

\* world_coords_to_grid_index(x, y) on the coordinates just computed
ToGrid ==
    /\ Len(result) = 1
    /\ result' = Append(result,
                        world_coords_to_grid_index(result[1][1], result[1][2],
                                                   args[4], args[5]))
    /\ UNCHANGED <<grid, intersections, G, ret, exc, args>>

NextCoords == ToWorld \/ ToGrid

SpecCoords == InitCoords /\ [][NextCoords]_vars

(***************************************************************************)
(* The shape classifier on its own: every pair of neighbour masks          *)
(***************************************************************************)
\* Two sets of directions with a non-EMPTY neighbour, to be classified.
InitClassify ==
    /\ grid = [r \in 0..(H - 1) |-> [c \in 0..(W - 1) |-> "EMPTY"]]
    /\ intersections = <<>>
    /\ G = EmptyGraph
    /\ ret = "none"
    /\ exc = "none"
    /\ args \in (SUBSET Direction) \X (SUBSET Direction)
    /\ result = <<>>

\* The classifier is applied to both masks.
ClassifyMasks ==
    /\ result = <<>>
    /\ result' = <<classify_neighbors(args[1]), classify_neighbors(args[2])>>
    /\ UNCHANGED <<grid, intersections, G, ret, exc, args>>

NextClassify == ClassifyMasks

SpecClassify == InitClassify /\ [][NextClassify]_vars

(***************************************************************************)
(* Vocabulary of the properties                                            *)
(***************************************************************************)
Coords == Rows \X Cols

Placed(coord) == grid[coord[1]][coord[2]] # "EMPTY"

\* The coordinate lying in direction d from coord.
Toward(coord, d) ==
    CASE d = "UP" -> <<coord[1] - 1, coord[2]>>
      [] d = "RIGHT" -> <<coord[1], coord[2] + 1>>
      [] d = "DOWN" -> <<coord[1] + 1, coord[2]>>
      [] d = "LEFT" -> <<coord[1], coord[2] - 1>>

\* The directions in which coord has an in-bounds placed neighbour.
PlacedDirections(coord) ==
    {d \in Direction : Toward(coord, d) \in Coords /\ Placed(Toward(coord, d))}

ENTER(coord, d) == RoadSegmentNode(coord, d, "ENTER")

EXIT(coord, d) == RoadSegmentNode(coord, d, "EXIT")

\* Edges between nodes of two different tiles, and within one tile.
CrossingEdges(g) == {e \in g.edges : e[1].tile_index # e[2].tile_index}

IntraEdges(g, coord) ==
    {e \in g.edges : e[1].tile_index = coord /\ e[2].tile_index = coord}

\* The active directions of the intersection stored for coord (none stored:
\* no active direction).
ActiveDirections(coord) ==
    IF coord \in DOMAIN intersections THEN segments(intersections[coord]) ELSE {}

IntersectionNodes(insct) == enter_nodes(insct) \cup exit_nodes(insct)

\* The step is the call add_road(r, c, restrict_to_neighbors). The first
\* conjunct follows from the second; stating it first lets a check discard,
\* from the grid alone, the calls that cannot account for the step.
IsAddRoad(r, c, restrict_to_neighbors) ==
    /\ grid' = add_tile(grid, r, c, restrict_to_neighbors).grid
    /\ add_road(r, c, restrict_to_neighbors)

(***************************************************************************)
(* C1                                                                      *)
(***************************************************************************)
\* C1: for grid-adjacent A and B (B in direction d from A) the two crossing
\* edges A.EXIT(d)->B.ENTER(opposite(d)) and B.EXIT(opposite(d))->A.ENTER(d)
\* are both in the graph iff A and B are both placed, and every edge between
\* two different tiles is such a crossing edge.
C1_CrossingEdgesIffBothPlaced ==
    /\ \A A \in Coords : \A d \in Direction :
          LET B == Toward(A, d)
          IN  B \in Coords =>
                ((/\ <<EXIT(A, d), ENTER(B, opposite(d))>> \in G.edges
                  /\ <<EXIT(B, opposite(d)), ENTER(A, d)>> \in G.edges)
                 <=> (Placed(A) /\ Placed(B)))
    /\ \A e \in CrossingEdges(G) :
          /\ e[1].node_type = "EXIT"
          /\ e[2].node_type = "ENTER"
          /\ e[2].tile_index = Toward(e[1].tile_index, e[1].dir)
          /\ e[2].dir = opposite(e[1].dir)

\* Two vertically adjacent tiles are placed and joined by their crossing edges.
C1_Witness ==
    /\ Placed(<<0, 1>>) /\ Placed(<<1, 1>>)
    /\ <<EXIT(<<0, 1>>, "DOWN"), ENTER(<<1, 1>>, "UP")>> \in G.edges
    /\ <<EXIT(<<1, 1>>, "UP"), ENTER(<<0, 1>>, "DOWN")>> \in G.edges

(***************************************************************************)
(* C2                                                                      *)
(***************************************************************************)
\* The intra-edges an intersection with active directions dirs must have.
ExpectedIntraEdges(coord, dirs) ==
    IF Cardinality(dirs) = 1
    THEN {<<ENTER(coord, d), EXIT(coord, d)>> : d \in dirs}
    ELSE {<<ENTER(coord, p[1]), EXIT(coord, p[2])>> :
            p \in {q \in dirs \X dirs : q[1] # q[2]}}

\* C2: the edges within one intersection are: none for 0 active directions,
\* the single U-turn ENTER(d)->EXIT(d) for exactly one, and all
\* ENTER(d1)->EXIT(d2) with d1 # d2 (no self-loop) for two or more.
C2_IntraEdgesByDirectionCount ==
    \A coord \in Coords :
        IntraEdges(G, coord) = ExpectedIntraEdges(coord, ActiveDirections(coord))

\* (0,0), (0,1), (0,2) are placed and (0,1), a dead end after the second
\* placement, has become a straight-through with exactly its two turn edges.
C2_Witness ==
    /\ Placed(<<0, 0>>) /\ Placed(<<0, 1>>) /\ Placed(<<0, 2>>)
    /\ ActiveDirections(<<0, 1>>) = {"LEFT", "RIGHT"}
    /\ IntraEdges(G, <<0, 1>>) =
          {<<ENTER(<<0, 1>>, "LEFT"), EXIT(<<0, 1>>, "RIGHT")>>,
           <<ENTER(<<0, 1>>, "RIGHT"), EXIT(<<0, 1>>, "LEFT")>>}

(***************************************************************************)
(* C3                                                                      *)
(***************************************************************************)
\* C3: a coordinate has an intersection iff its cell is non-EMPTY, and the
\* intersection's segment directions are the active directions of the cell's
\* current shape.
C3_IntersectionPerPlacedCell ==
    /\ DOMAIN intersections = {coord \in Coords : Placed(coord)}
    /\ \A coord \in DOMAIN intersections :
          /\ intersections[coord].r = coord[1]
          /\ intersections[coord].c = coord[2]
          /\ segments(intersections[coord]) =
                segment_directions(grid[coord[1]][coord[2]])

\* A corner tile and its two neighbours are registered.
C3_Witness ==
    /\ <<0, 0>> \in DOMAIN intersections
    /\ segments(intersections[<<0, 0>>]) = {"RIGHT", "DOWN"}
    /\ grid[0][0] = "RIGHT_DOWN"

(***************************************************************************)
(* C4                                                                      *)
(***************************************************************************)
\* C4: every non-EMPTY cell carries the shape whose active directions are
\* exactly the directions of its in-bounds non-EMPTY neighbours (ALONE when
\* it has none): no stale shape anywhere.
C4_ShapesMatchNeighbours ==
    \A coord \in Coords :
        Placed(coord) =>
            /\ grid[coord[1]][coord[2]] \in TileType
            /\ segment_directions(grid[coord[1]][coord[2]]) = PlacedDirections(coord)
            /\ PlacedDirections(coord) = {} => grid[coord[1]][coord[2]] = "ALONE"

\* (0,1) has been re-classified up to the three-direction shape, next to the
\* dead end (1,1).
C4_Witness ==
    /\ grid[0][1] = "RIGHT_DOWN_LEFT"
    /\ grid[1][1] = "UP"

(***************************************************************************)
(* C5                                                                      *)
(***************************************************************************)
\* The two reasons add_tile rejects a placement.
Rejected(r, c, restrict_to_neighbors) ==
    \/ Placed(<<r, c>>)
    \/ restrict_to_neighbors /\ PlacedDirections(<<r, c>>) = {}

\* C5: an in-bounds add_road returns false exactly when the cell is already
\* non-EMPTY, or the placement is restricted and the cell has no non-EMPTY
\* neighbour; then grid, intersections and graph are unchanged; in every
\* other case it returns true.
C5_RejectionIsExactAndInert ==
    [][\A r \in Rows, c \in Cols, restrict_to_neighbors \in BOOLEAN :
          IsAddRoad(r, c, restrict_to_neighbors) =>
            /\ exc' = "none"
            /\ ret' = "False" <=> Rejected(r, c, restrict_to_neighbors)
            /\ ~Rejected(r, c, restrict_to_neighbors) => ret' = "True"
            /\ Rejected(r, c, restrict_to_neighbors) =>
                  UNCHANGED <<grid, intersections, G>>]_vars

\* A placement has been rejected on a grid that already holds a road.
C5_Witness ==
    /\ ret = "False"
    /\ \E coord \in Coords : Placed(coord)
    /\ \E coord \in Coords : ~Placed(coord) /\ PlacedDirections(coord) = {}

(***************************************************************************)
(* C6                                                                      *)
(***************************************************************************)
\* C6: for every index (r, c) outside [0,h) x [0,w), negative ones included,
\* tile_type(r, c) and add_road(r, c, ...) fail with an out-of-bounds error:
\* no value of another cell is returned, no grid cell is mutated and no
\* intersection is registered.
C6_OutOfBoundsAlwaysFails ==
    [][\A r \in AnyRows, c \in AnyCols :
          <<r, c>> \notin Coords =>
            /\ tile_type_call(r, c) => exc' = "IndexError" /\ ret' = "none"
            /\ \A restrict_to_neighbors \in BOOLEAN :
                  add_road(r, c, restrict_to_neighbors) =>
                    /\ exc' = "IndexError"
                    /\ UNCHANGED <<grid, intersections, G>>]_vars

(***************************************************************************)
(* C7                                                                      *)
(***************************************************************************)
\* The U-turn edges of the intersections adjacent to (r, c).
NeighbourUTurns(r, c) ==
    {<<ENTER(Toward(<<r, c>>, d), dd), EXIT(Toward(<<r, c>>, d), dd)>> :
        d \in Direction, dd \in Direction}

\* C7: an add_road step never deletes a vertex nor a crossing edge, and the
\* only edges it can delete are U-turn edges ENTER(d)->EXIT(d) of
\* intersections adjacent to the newly placed tile.
C7_PlacementOnlyDropsNeighbourUTurns ==
    [][\A r \in Rows, c \in Cols, restrict_to_neighbors \in BOOLEAN :
          IsAddRoad(r, c, restrict_to_neighbors) =>
            /\ G.nodes \subseteq G'.nodes
            /\ CrossingEdges(G) \subseteq G'.edges
            /\ (G.edges \ G'.edges) \subseteq NeighbourUTurns(r, c)]_vars

\* A U-turn edge has been dropped: (1,0) was a dead end towards (1,1) and is
\* now a corner, while the crossing edges between (1,0) and (1,1) remain.
C7_Witness ==
    /\ ActiveDirections(<<1, 0>>) = {"UP", "RIGHT"}
    /\ <<ENTER(<<1, 0>>, "RIGHT"), EXIT(<<1, 0>>, "RIGHT")>> \notin G.edges
    /\ <<EXIT(<<1, 0>>, "RIGHT"), ENTER(<<1, 1>>, "LEFT")>> \in G.edges

(***************************************************************************)
(* C8                                                                      *)
(***************************************************************************)
\* C8: the vertex set of the graph is the union of the nodes of the stored
\* intersections; an intersection with k active directions holds exactly 2k
\* distinct nodes, one ENTER and one EXIT of its own coordinate per direction.
C8_VerticesAreIntersectionNodes ==
    /\ G.nodes = UNION {IntersectionNodes(intersections[coord]) :
                            coord \in DOMAIN intersections}
    /\ \A coord \in DOMAIN intersections :
          LET insct == intersections[coord]
          IN  /\ Cardinality(IntersectionNodes(insct)) =
                    2 * Cardinality(segments(insct))
              /\ \A d \in segments(insct) :
                    /\ insct.nodes[d].ENTER = ENTER(coord, d)
                    /\ insct.nodes[d].EXIT = EXIT(coord, d)

\* A three-direction intersection with its six vertices in the graph.
C8_Witness ==
    /\ <<0, 1>> \in DOMAIN intersections
    /\ Cardinality(segments(intersections[<<0, 1>>])) = 3
    /\ Cardinality({n \in G.nodes : n.tile_index = <<0, 1>>}) = 6

(***************************************************************************)
(* C9                                                                      *)
(***************************************************************************)
\* C9: the shape classifier is total and injective over the 16 subsets of
\* {UP, RIGHT, DOWN, LEFT}: each subset yields a defined non-EMPTY shape
\* whose active directions are exactly the subset (ALONE for the empty
\* subset), and two distinct subsets never yield the same shape.
C9_ClassifierTotalAndInjective ==
    result # <<>> =>
        /\ \A i \in 1..2 :
              /\ result[i] \in TileType \ {"EMPTY"}
              /\ segment_directions(result[i]) = args[i]
              /\ args[i] = {} => result[i] = "ALONE"
        /\ args[1] # args[2] => result[1] # result[2]

\* Two distinct masks of the same size, a corner and a straight-through, have
\* been classified.
C9_Witness ==
    /\ args = <<{"UP", "LEFT"}, {"UP", "DOWN"}>>
    /\ result = <<"UP_LEFT", "UP_DOWN">>

(***************************************************************************)
(* C10                                                                     *)
(***************************************************************************)
\* The vertices reachable from from in exactly n hops.
RECURSIVE HopsAway(_, _, _)
HopsAway(g, from, n) ==
    IF n = 0 THEN {from}
    ELSE successors(g, HopsAway(g, from, n - 1))

\* The least set of vertices that holds seen and is closed under edges.
RECURSIVE Closure(_, _)
Closure(g, seen) ==
    IF successors(g, seen) \subseteq seen THEN seen
    ELSE Closure(g, seen \cup successors(g, seen))

Reachable(g, from, to) == to \in Closure(g, {from})

IsPath(g, p, from, to) ==
    /\ Len(p) >= 1
    /\ p[1] = from
    /\ p[Len(p)] = to
    /\ \A i \in 1..(Len(p) - 1) : <<p[i], p[i + 1]>> \in g.edges

\* C10: shortest_path(source, target) returns, when both are vertices and
\* target is reachable, a sequence from source to target along graph edges
\* with the fewest possible hops; it fails with NoPathFound (NetworkXNoPath)
\* when both are vertices and target is unreachable, and with UnknownNode
\* (NodeNotFound) when either is no vertex; the query never changes the graph.
C10_ShortestPathContract ==
    [][(args = <<>> /\ args' # <<>>) =>
          LET source == args'[1]
              target == args'[2]
          IN  /\ G' = G
              /\ grid' = grid
              /\ intersections' = intersections
              /\ IF source \notin G.nodes \/ target \notin G.nodes
                 THEN exc' = "NodeNotFound" /\ result' = <<>>
                 ELSE IF ~Reachable(G, source, target)
                 THEN exc' = "NetworkXNoPath" /\ result' = <<>>
                 ELSE /\ exc' = "none"
                      /\ IsPath(G, result', source, target)
                      /\ \A n \in 0..(Len(result') - 2) :
                            target \notin HopsAway(G, source, n)]_vars

\* A query between the two corners of the grid has been answered with a path
\* that crosses four tiles or more.
C10_Witness ==
    /\ args = <<ENTER(<<0, 0>>, "RIGHT"), ENTER(<<H - 1, W - 1>>, "UP")>>
    /\ exc = "none"
    /\ Len(result) >= 6

(***************************************************************************)
(* C11                                                                     *)
(***************************************************************************)
\* The cells that hold a road.
PlacedCells == {coord \in Coords : Placed(coord)}

\* C11: once (0,0) and then (0,1) have been placed on an empty grid, (0,0)
\* has shape RIGHT and (0,1) has shape LEFT, the edges are exactly the two
\* U-turn edges and the two crossing edges, and shortest_path from
\* ENTER((0,0),RIGHT) to ENTER((0,1),LEFT) is exactly
\* [ENTER((0,0),RIGHT), EXIT((0,0),RIGHT), ENTER((0,1),LEFT)], the only simple
\* path between the two.
C11_TwoDeadEndsScenario ==
    PlacedCells = {<<0, 0>>, <<0, 1>>} =>
        /\ grid[0][0] = "RIGHT"
        /\ grid[0][1] = "LEFT"
        /\ G.edges =
              {<<ENTER(<<0, 0>>, "RIGHT"), EXIT(<<0, 0>>, "RIGHT")>>,
               <<ENTER(<<0, 1>>, "LEFT"), EXIT(<<0, 1>>, "LEFT")>>,
               <<EXIT(<<0, 0>>, "RIGHT"), ENTER(<<0, 1>>, "LEFT")>>,
               <<EXIT(<<0, 1>>, "LEFT"), ENTER(<<0, 0>>, "RIGHT")>>}
        /\ simple_paths(G, <<ENTER(<<0, 0>>, "RIGHT")>>, ENTER(<<0, 1>>, "LEFT")) =
              {<<ENTER(<<0, 0>>, "RIGHT"), EXIT(<<0, 0>>, "RIGHT"),
                 ENTER(<<0, 1>>, "LEFT")>>}
        /\ args = <<ENTER(<<0, 0>>, "RIGHT"), ENTER(<<0, 1>>, "LEFT")>> =>
              /\ exc = "none"
              /\ result = <<ENTER(<<0, 0>>, "RIGHT"), EXIT(<<0, 0>>, "RIGHT"),
                            ENTER(<<0, 1>>, "LEFT")>>

\* The two tiles are placed and the query between their ENTER nodes has been
\* answered with a three-node path.
C11_Witness ==
    /\ PlacedCells = {<<0, 0>>, <<0, 1>>}
    /\ args = <<ENTER(<<0, 0>>, "RIGHT"), ENTER(<<0, 1>>, "LEFT")>>
    /\ Len(result) = 3

(***************************************************************************)
(* C12                                                                     *)
(***************************************************************************)
\* C12: running _update_intersection_intraconnected_edges or
\* _intraconnect_nodes again on any intersection reachable by add_road calls
\* (0, 1 or more active directions), its segments unchanged, leaves the
\* vertex set and the edge set of the graph exactly as they were.
C12_MaintenanceIsIdempotent ==
    [][\A coord \in Coords :
          (UpdateIntersection(coord) \/ IntraconnectIntersection(coord)) =>
            /\ G'.nodes = G.nodes
            /\ G'.edges = G.edges]_vars

\* The update has just been run again on the dead end (0,0), whose U-turn it
\* removes and adds back.
C12_Witness ==
    /\ args = <<"_update_intersection_intraconnected_edges", <<0, 0>>>>
    /\ ActiveDirections(<<0, 0>>) = {"RIGHT"}
    /\ <<ENTER(<<0, 0>>, "RIGHT"), EXIT(<<0, 0>>, "RIGHT")>> \in G.edges

(***************************************************************************)
(* C13                                                                     *)
(***************************************************************************)
\* C13: on an all-EMPTY grid a restricted placement fails for every cell and
\* leaves the grid all-EMPTY (so restricted placements alone never get off
\* the empty grid); an unrestricted placement on an EMPTY in-bounds cell
\* always succeeds, and the cell's shape is then ALONE when it has no
\* non-EMPTY neighbour, and in no case EMPTY.
C13_EmptyGridNeedsUnrestrictedStart ==
    [][\A r \in Rows, c \in Cols :
          /\ (PlacedCells = {} /\ IsAddRoad(r, c, TRUE)) =>
                /\ ret' = "False"
                /\ grid' = grid
          /\ (~Placed(<<r, c>>) /\ IsAddRoad(r, c, FALSE)) =>
                /\ ret' = "True"
                /\ grid'[r][c] # "EMPTY"
                /\ PlacedDirections(<<r, c>>) = {} => grid'[r][c] = "ALONE"]_vars

\* A restricted placement has been refused on the all-EMPTY grid.
C13_Witness ==
    /\ PlacedCells = {}
    /\ ret = "False"

(***************************************************************************)
(* C14                                                                     *)
(***************************************************************************)
\* C14: across every add_road step a non-EMPTY cell stays non-EMPTY, the
\* active directions of every placed cell's shape and of its intersection
\* only grow, and an intersection is created only for the coordinate being
\* placed, by its one successful placement: a stored intersection is never
\* replaced nor removed.
C14_MonotoneLifecycle ==
    [][\A r \in Rows, c \in Cols, restrict_to_neighbors \in BOOLEAN :
          IsAddRoad(r, c, restrict_to_neighbors) =>
            /\ \A coord \in PlacedCells :
                  /\ grid'[coord[1]][coord[2]] # "EMPTY"
                  /\ segment_directions(grid[coord[1]][coord[2]]) \subseteq
                        segment_directions(grid'[coord[1]][coord[2]])
            /\ \A coord \in DOMAIN intersections :
                  /\ coord \in DOMAIN intersections'
                  /\ \A d \in segments(intersections[coord]) :
                        /\ d \in segments(intersections'[coord])
                        /\ intersections'[coord].nodes[d] = intersections[coord].nodes[d]
            /\ (DOMAIN intersections') \ (DOMAIN intersections) =
                  IF ret' = "True" THEN {<<r, c>>} ELSE {}
            /\ ret' = "True" => ~Placed(<<r, c>>)
            /\ ret' # "True" => intersections' = intersections]_vars

\* The intersection of (1,1), created with fewer directions, has been
\* extended to three by the placements around it.
C14_Witness ==
    /\ grid[1][1] = "UP_RIGHT_LEFT"
    /\ ActiveDirections(<<1, 1>>) = {"UP", "RIGHT", "LEFT"}

(***************************************************************************)
(* C15                                                                     *)
(***************************************************************************)
\* The cells whose shape the step changes.
ChangedCells ==
    {coord \in Coords : grid'[coord[1]][coord[2]] # grid[coord[1]][coord[2]]}

\* C15: a successful placement at (r, c) changes at most five cells, (r, c)
\* and its in-bounds compass neighbours; a neighbour that was EMPTY stays
\* EMPTY, and every other cell keeps its shape.
C15_PlacementTouchesFiveCellsAtMost ==
    [][\A r \in Rows, c \in Cols, restrict_to_neighbors \in BOOLEAN :
          (/\ IsAddRoad(r, c, restrict_to_neighbors)
           /\ add_tile(grid, r, c, restrict_to_neighbors).ret = "True") =>
            /\ ChangedCells \subseteq
                  {<<r, c>>} \cup {Toward(<<r, c>>, d) : d \in Direction}
            /\ Cardinality(ChangedCells) <= 5
            /\ \A d \in Direction :
                  (Toward(<<r, c>>, d) \in Coords /\ ~Placed(Toward(<<r, c>>, d))) =>
                      grid'[Toward(<<r, c>>, d)[1]][Toward(<<r, c>>, d)[2]] = "EMPTY"]_vars

\* The centre cell has been placed between four ALONE tiles: five cells have
\* changed, the four corners are still EMPTY.
C15_Witness ==
    /\ grid[1][1] = "UP_RIGHT_DOWN_LEFT"
    /\ grid[0][1] = "DOWN" /\ grid[1][2] = "LEFT"
    /\ grid[2][1] = "UP" /\ grid[1][0] = "RIGHT"
    /\ PlacedCells = {<<1, 1>>, <<0, 1>>, <<1, 2>>, <<2, 1>>, <<1, 0>>}
    /\ ret = "True"

(***************************************************************************)
(* C16                                                                     *)
(***************************************************************************)
\* C16: for every valid grid index (r, c), converting it to world
\* coordinates and back returns (r, c), with center false and with center
\* true, for any positive integer tile width and height.
C16_CoordinateRoundTrip ==
    Len(result) = 2 => result[2] = <<args[1], args[2]>>

\* The centre of cell (2,1) on 3x2 tiles is (4,5) and converts back.
C16_Witness ==
    /\ args = <<2, 1, TRUE, 3, 2>>
    /\ result = <<<<4, 5>>, <<2, 1>>>>

(***************************************************************************)
(* C17                                                                     *)
(***************************************************************************)
\* register_tile_intersection(r, c, ..) after its first loop (lines 272-283)
\* and after its second loop (lines 272-291), for the grid gr add_tile left.
AfterFirstLoop(gr, r, c) ==
    update_neighbors(
        register_start(G, intersections, TravelIntersection(r, c, tile_type(gr, r, c))),
        get_neighbors(gr, r, c))

AfterSecondLoop(gr, r, c) ==
    connect_neighbors(AfterFirstLoop(gr, r, c),
                      TravelIntersection(r, c, tile_type(gr, r, c)),
                      get_neighbors(gr, r, c))

\* C17: in a sequence of in-bounds add_road calls no lookup of
\* register_tile_intersection fails: every neighbour get_neighbors reports
\* already has a stored intersection, all of them have their segment towards
\* the new tile (and the update done) when the first loop ends, before any
\* boundary edge is added, and the new intersection is stored only after all
\* boundary edges are in the graph.
C17_RegistrationLookupsSucceed ==
    [][\A r \in Rows, c \in Cols, restrict_to_neighbors \in BOOLEAN :
          IsAddRoad(r, c, restrict_to_neighbors) =>
            /\ exc' = "none"
            /\ add_tile(grid, r, c, restrict_to_neighbors).ret = "True" =>
                  /\ \A dir \in DOMAIN get_neighbors(grid', r, c) :
                        LET key == get_neighbors(grid', r, c)[dir][1]
                        IN  /\ key \in DOMAIN intersections
                            /\ opposite(dir) \in
                                  segments(AfterFirstLoop(grid', r, c).intersections[key])
                            /\ CrossingEdges(AfterFirstLoop(grid', r, c).G) =
                                  CrossingEdges(G)
                            /\ <<EXIT(<<r, c>>, dir), ENTER(key, opposite(dir))>>
                                  \in AfterSecondLoop(grid', r, c).G.edges
                            /\ <<EXIT(key, opposite(dir)), ENTER(<<r, c>>, dir)>>
                                  \in AfterSecondLoop(grid', r, c).G.edges
                  /\ AfterFirstLoop(grid', r, c).exc = "none"
                  /\ AfterSecondLoop(grid', r, c).exc = "none"
                  /\ <<r, c>> \notin DOMAIN AfterSecondLoop(grid', r, c).intersections
                  /\ <<r, c>> \in DOMAIN intersections'
                  /\ G' = AfterSecondLoop(grid', r, c).G]_vars

\* (1,1) has been registered next to two earlier tiles, (0,1) and (1,0), with
\* the boundary edges to both.
C17_Witness ==
    /\ exc = "none"
    /\ PlacedCells = {<<0, 1>>, <<1, 0>>, <<1, 1>>}
    /\ ActiveDirections(<<1, 1>>) = {"UP", "LEFT"}
    /\ <<EXIT(<<1, 1>>, "UP"), ENTER(<<0, 1>>, "DOWN")>> \in G.edges
    /\ <<EXIT(<<1, 0>>, "RIGHT"), ENTER(<<1, 1>>, "LEFT")>> \in G.edges

(***************************************************************************)
(* C18                                                                     *)
(***************************************************************************)
\* The travel graph built from scratch from the grid: per placed tile the
\* nodes of the directions with a placed neighbour and the intra-edges for
\* that many directions, and the crossing edges between adjacent placed tiles.
ScratchNodes ==
    UNION {{RoadSegmentNode(coord, d, t) :
                d \in PlacedDirections(coord), t \in RoadNodeType} :
              coord \in PlacedCells}

ScratchEdges ==
    UNION {ExpectedIntraEdges(coord, PlacedDirections(coord)) \cup
           {<<EXIT(coord, d), ENTER(Toward(coord, d), opposite(d))>> :
                d \in PlacedDirections(coord)} :
              coord \in PlacedCells}

\* C18: whatever the order in which the tiles of a set were placed, the grid,
\* the direction sets of the intersections and the travel graph are the ones
\* determined by the set of placed cells alone; the graph equals the one built
\* from scratch from the final grid.
C18_OrderIndependence ==
    /\ \A coord \in PlacedCells :
          /\ segment_directions(grid[coord[1]][coord[2]]) = PlacedDirections(coord)
          /\ grid[coord[1]][coord[2]] \in TileType \ {"EMPTY"}
          /\ grid[coord[1]][coord[2]] = "ALONE" <=> PlacedDirections(coord) = {}
    /\ DOMAIN intersections = PlacedCells
    /\ \A coord \in PlacedCells : ActiveDirections(coord) = PlacedDirections(coord)
    /\ G.nodes = ScratchNodes
    /\ G.edges = ScratchEdges

\* The 2x2 block in the top-left corner, reachable in 24 placement orders,
\* with its 8 intra-edges and 8 crossing edges.
C18_Witness ==
    /\ PlacedCells = {<<0, 0>>, <<0, 1>>, <<1, 0>>, <<1, 1>>}
    /\ Cardinality(G.edges) = 16
    /\ Cardinality(G.nodes) = 16

(***************************************************************************)
(* C19                                                                     *)
(***************************************************************************)
\* The placed cells joined to a cell of seen by a chain of grid-adjacent
\* placed cells.
RECURSIVE Component(_)
Component(seen) ==
    IF \A coord \in seen : \A d \in PlacedDirections(coord) : Toward(coord, d) \in seen
    THEN seen
    ELSE Component(seen \cup
                   UNION {{Toward(coord, d) : d \in PlacedDirections(coord)} :
                            coord \in seen})

\* C19: for every two distinct placed tiles A and B in the same 4-connected
\* component of placed cells, shortest_path succeeds from some ENTER node of
\* A to some ENTER node of B: the graph holds a directed path between them.
C19_TileLevelRoutability ==
    \A A \in PlacedCells : \A B \in Component({A}) \ {A} :
        \E dA \in ActiveDirections(A), dB \in ActiveDirections(B) :
            /\ shortest_path(G, ENTER(A, dA), ENTER(B, dB)).exc = "none"
            /\ Reachable(G, ENTER(A, dA), ENTER(B, dB))

\* Two components: an L of five tiles from (0,0) to (2,2), routable end to
\* end, and the lone tile (2,0).
C19_Witness ==
    /\ PlacedCells = {<<0, 0>>, <<0, 1>>, <<0, 2>>, <<1, 2>>, <<2, 2>>, <<2, 0>>}
    /\ Component({<<0, 0>>}) = PlacedCells \ {<<2, 0>>}
    /\ Reachable(G, ENTER(<<0, 0>>, "RIGHT"), ENTER(<<2, 2>>, "UP"))
    /\ Reachable(G, ENTER(<<2, 2>>, "UP"), ENTER(<<0, 0>>, "RIGHT"))

(***************************************************************************)
(* C20                                                                     *)
(***************************************************************************)
OutEdges(g, n) == {e \in g.edges : e[1] = n}

InEdges(g, n) == {e \in g.edges : e[2] = n}

\* C20: every vertex has at least one outgoing and one incoming edge; the
\* outgoing edges of an ENTER node lead only to EXIT nodes of its own tile,
\* and an EXIT(d) node has exactly one outgoing edge, to ENTER(opposite(d))
\* of the adjacent tile in direction d.
C20_NoDeadEndVertices ==
    \A n \in G.nodes :
        /\ OutEdges(G, n) # {}
        /\ InEdges(G, n) # {}
        /\ n.node_type = "ENTER" =>
              \A e \in OutEdges(G, n) :
                  e[2].node_type = "EXIT" /\ e[2].tile_index = n.tile_index
        /\ n.node_type = "EXIT" =>
              OutEdges(G, n) =
                  {<<n, ENTER(Toward(n.tile_index, n.dir), opposite(n.dir))>>}

\* A row of three tiles: two dead ends around a straight-through, eight
\* vertices and eight edges.
C20_Witness ==
    /\ PlacedCells = {<<1, 0>>, <<1, 1>>, <<1, 2>>}
    /\ Cardinality(G.nodes) = 8
    /\ Cardinality(G.edges) = 8
    /\ OutEdges(G, EXIT(<<1, 1>>, "LEFT")) =
          {<<EXIT(<<1, 1>>, "LEFT"), ENTER(<<1, 0>>, "RIGHT")>>}

====
